---- MODULE Spec2Model ----
(***************************************************************************)
(* Order-management API: GET /orders (read-through cache over a paginated, *)
(* searchable listing), POST /orders (transactional creation, prefix       *)
(* invalidation, deferred confirmation) and the confirmation timer.        *)
(*                                                                         *)
(* Every handler is cut at its awaits: one step per store or cache round   *)
(* trip, the synchronous code that follows an await belonging to the step  *)
(* of that await or to the next one.  The three versions of the routes     *)
(* file are the three values of the variable `variant`.                    *)
(***************************************************************************)
EXTENDS Integers, Sequences, FiniteSets, TLC

\* ---------------------------------------------------------------- bounds

\* Seconds the clock advances in one Tick.
TickStep == 16
\* The clock stops advancing here, unless a timer is still to fire.
MaxTime == 32
\* Requests a client of GET /orders sends.
MaxGets == 1
\* Requests a client of POST /orders sends.
MaxPosts == 1

\* ------------------------------------------------------ program constants

\* cacheSet(cacheKey, payload, 30)
TTLSeconds == 30
\* setTimeout(..., 2000), in seconds
ConfirmDelay == 2
\* parseInt(req.query.page || '1', 10)
DefaultPage == 1
\* parseInt(req.query.limit || '10', 10)
DefaultLimit == 10

Variants == {"pg", "tx", "nested"}

\* An optional value: <<>> is undefined (a field the request lacks), <<v>> is v.
None == <<>>
Some(v) == <<v>>
IsSome(o) == Len(o) = 1
Val(o) == o[1]

\* ----------------------------------------------------------------- strings
\* A string is a sequence of one-character strings.

ToLowerChar(c) == CASE c = "W" -> "w" [] c = "G" -> "g" [] OTHER -> c

ToLower(s) == [i \in 1..Len(s) |-> ToLowerChar(s[i])]

\* s contains t as a contiguous substring ('%t%' under LIKE).
Contains(s, t) ==
  \E i \in 0..(Len(s) - Len(t)) : \A j \in 1..Len(t) : s[i + j] = t[j]

\* ILIKE '%q%' / { contains: q, mode: 'insensitive' }
ILike(s, q) == Contains(ToLower(s), ToLower(q))

RECURSIVE TrimLeft(_)
TrimLeft(s) == IF s # <<>> /\ Head(s) = " " THEN TrimLeft(Tail(s)) ELSE s

RECURSIVE TrimRight(_)
TrimRight(s) ==
  IF s # <<>> /\ s[Len(s)] = " " THEN TrimRight(SubSeq(s, 1, Len(s) - 1)) ELSE s

\* String.prototype.trim
Trim(s) == TrimRight(TrimLeft(s))

\* -------------------------------------------------- reference rows (seed)
\* users and products are read-only in these routes.

Users == {1}
Products == {1, 2}

UserEmail(u) == <<"a", "@", "x">>
ProductName(p) == IF p = 1 THEN <<"W", "i">> ELSE <<"G">>

\* ------------------------------------------------------------------- state

VARIABLES
  variant,     \* which version of the routes file runs
  env,         \* which clients and which inputs this run has
  now,         \* wall clock, seconds
  nextId,      \* orders.id sequence
  nextItemId,  \* order_items.id sequence
  orders,      \* committed rows of orders: id -> [user_id, status, created_at]
  items,       \* committed rows of order_items
  cache,       \* redis: key -> [val, setAt, exp]
  lister,      \* GET /orders requests
  creator,     \* POST /orders requests
  jobs,        \* setTimeout callbacks: order id -> [pc, due, keys]
  sent,        \* client -> the requests it has sent
  readAt,      \* history: key -> when the store was read for the entry under it
  acked,       \* history: ids of the orders whose POST answered 200
  reqItems,    \* history: order id -> number of items of its request
  last,        \* history: the answer the latest step sent, if it sent one
  first        \* history: the latest 200 of a GET, while a GET may be compared with it

vars == <<variant, env, now, nextId, nextItemId, orders, items, cache,
          lister, creator, jobs, sent, readAt, acked, reqItems, last, first>>

Listers == {"L1", "L2"}
Creators == {"K1", "K2"}

\* ------------------------------------------------------------------- store
\* orders and order_items are sets of rows.  created_at is the clock's value
\* at the INSERT: rows inserted in the same tick carry the same one.

\* users(id) holds the row
UserExists(u) == u \in Users
\* products(id) holds the row
ProductExists(p) == p \in Products

OrderIds(ords) == {r.id : r \in ords}
OrderRow(ords, id) == CHOOSE r \in ords : r.id = id
ItemsOf(its, id) == {r \in its : r.order_id = id}

\* WHERE u.email ILIKE $1 OR EXISTS (... p2.name ILIKE $1); no WHERE when q = ''
Matches(r, its, q) ==
  \/ q = <<>>
  \/ ILike(UserEmail(r.user_id), q)
  \/ \E it \in ItemsOf(its, r.id) : ILike(ProductName(it.product_id), q)

Matching(ords, its, q) == {r \in ords : Matches(r, its, q)}

\* SELECT COUNT(*) ... / prisma.order.count({ where })
CountQuery(ords, its, q) == Cardinality(Matching(ords, its, q))

\* Every row of S once, in an order that ORDER BY created_at DESC allows:
\* rows of equal created_at come in any order.
OrderedByCreatedAtDesc(S) ==
  {s \in [1..Cardinality(S) -> S] :
     /\ \A i, j \in 1..Cardinality(S) : i # j => s[i] # s[j]
     /\ \A i, j \in 1..Cardinality(S) :
          i < j => s[i].created_at >= s[j].created_at}

\* LIMIT limit OFFSET offset / skip, take
Page(s, limit, offset) ==
  SubSeq(s, offset + 1, IF offset + limit < Len(s) THEN offset + limit ELSE Len(s))

\* The result sets the listing query may return.
ListQuery(ords, its, q, limit, offset) ==
  {Page(s, limit, offset) : s \in OrderedByCreatedAtDesc(Matching(ords, its, q))}

\* Variation: the UPDATE without its WHERE clause.
UpdateConfirmedAll(ords, id) == {[r EXCEPT !.status = "CONFIRMED"] : r \in ords}

\* UPDATE orders SET status='CONFIRMED' WHERE id=$1
UpdateConfirmed(ords, id) ==
  {IF r.id = id THEN [r EXCEPT !.status = "CONFIRMED"] ELSE r : r \in ords}

\* Variation: the INSERTs outside a transaction, each visible at once.
BeforeCommitDirty(committedRows, txRows) == committedRows \cup txRows

\* What the other connections see of the rows a transaction has inserted
\* and not committed: the committed rows only.
BeforeCommit(committedRows, txRows) == committedRows

\* COMMIT: the transaction's rows join the committed ones.
AfterCommit(committedRows, txRows) == committedRows \cup txRows

\* A set of rows as a sequence, by ascending id.
RECURSIVE SeqById(_)
SeqById(S) ==
  IF S = {} THEN <<>>
  ELSE LET m == CHOOSE r \in S : \A x \in S : r.id <= x.id
       IN <<m>> \o SeqById(S \ {m})

\* ------------------------------------------------------------------- JSON
\* A Date is <<"Date", t>>; in JSON text it is the string <<"ISO", t>>, and
\* JSON.parse leaves that string a string.

ToJSONValue(d) == IF d[1] = "Date" THEN <<"ISO", d[2]>> ELSE d

\* JSON.stringify of a listing payload
JSONStringify(v) ==
  [json |-> [v EXCEPT !.data =
     [i \in DOMAIN v.data |->
        [v.data[i] EXCEPT !.created_at = ToJSONValue(@)]]]]

\* JSON.parse
JSONParse(text) == text.json

\* ------------------------------------------------------------------ redis

ListPrefix == "orders:list:"

\* `orders:list:p=${page}:l=${limit}:q=${q}`
CacheKey(page, limit, q) == <<ListPrefix, "p=", page, ":l=", limit, ":q=", q>>

\* KEYS `${prefix}*`
HasPrefix(key, prefix) == key[1] = prefix

\* redis.get: the value, or null
RedisGet(c, key) == IF key \in DOMAIN c THEN Some(c[key].val) ELSE None

\* const val = await redis.get(key); return val ? JSON.parse(val) : null
CacheGet(c, key) ==
  LET val == RedisGet(c, key) IN IF IsSome(val) THEN Some(JSONParse(Val(val))) ELSE None

\* Variation: the payload stored before its data is attached.
CacheSetNoData(c, key, value, ttlSeconds, t) ==
  [k \in DOMAIN c \cup {key} |->
     IF k = key
     THEN [val |-> [json |-> [value EXCEPT !.data = <<>>]], setAt |-> t,
           exp |-> t + ttlSeconds]
     ELSE c[k]]

\* Variation: the expiry given in another unit ('PX' read as seconds * 2).
CacheSetLonger(c, key, value, ttlSeconds, t) ==
  [k \in DOMAIN c \cup {key} |->
     IF k = key
     THEN [val |-> JSONStringify(value), setAt |-> t, exp |-> t + ttlSeconds * 2]
     ELSE c[k]]

\* redis.set(key, JSON.stringify(value), 'EX', ttlSeconds) at time t
CacheSet(c, key, value, ttlSeconds, t) ==
  [k \in DOMAIN c \cup {key} |->
     IF k = key
     THEN [val |-> JSONStringify(value), setAt |-> t, exp |-> t + ttlSeconds]
     ELSE c[k]]

\* Variation: KEYS without the trailing `*`, which matches the prefix alone.
CacheKeysExact(c, prefix) == {k \in DOMAIN c : k = <<prefix>>}

\* redis.keys(`${prefix}*`)
CacheKeys(c, prefix) == {k \in DOMAIN c : HasPrefix(k, prefix)}

\* redis.del(keys)
CacheDel(c, keys) == [k \in DOMAIN c \ keys |-> c[k]]

\* Variation: a redis that keeps every key.
ExpireNever(c, t) == c

\* Variation: a redis that drops a key one TTL late.
ExpireLate(c, t) == [k \in {x \in DOMAIN c : c[x].exp + TTLSeconds > t} |-> c[k]]

\* redis drops a key once its EX time has passed.
Expire(c, t) == [k \in {x \in DOMAIN c : c[x].exp > t} |-> c[k]]

\* History: the payload written under key was read from the store at time t.
NoteRead(ra, key, t) == [k \in DOMAIN ra \cup {key} |-> IF k = key THEN t ELSE ra[k]]

\* History: only the entries still in the cache are remembered.
Kept(ra, c) == [k \in DOMAIN ra \cap DOMAIN c |-> ra[k]]

\* ------------------------------------------------------------ environment
\* A run has one of four sets of clients, each sending a bounded number of
\* requests: "race" has two GET clients beside a POST client, "orders" two
\* POST clients, "bodies" one POST client that tries every request body,
\* "queries" one client of each route, the GET client trying every query
\* string, over a store that holds a first order already.

Envs == {"race", "orders", "bodies", "queries"}

Item(p, n) == [product_id |-> p, quantity |-> n]
Body(u, its) == [user_id |-> u, items |-> its]

\* The plain request bodies.
GoodBodies ==
  { Body(Some(1), Some(<<Item(Some(1), Some(2))>>)),
    Body(Some(1), Some(<<Item(Some(2), Some(1))>>)) }

\* The others.  items = None is a body without an items array.
OddBodies ==
  { Body(None, Some(<<Item(Some(1), Some(1))>>)),
    Body(Some(0), Some(<<Item(Some(1), Some(1))>>)),
    Body(Some(-1), Some(<<Item(Some(1), Some(1))>>)),
    Body(Some(9), Some(<<Item(Some(1), Some(1))>>)),
    Body(Some(1), None),
    Body(Some(1), Some(<<>>)),
    Body(Some(1), Some(<<Item(Some(1), Some(1)), Item(Some(9), Some(1))>>)),
    Body(Some(1), Some(<<Item(None, Some(1))>>)),
    Body(Some(1), Some(<<Item(Some(1), None)>>)),
    Body(Some(1), Some(<<Item(Some(1), Some(0))>>)) }

Bodies(e) ==
  CASE e = "race" -> {Body(Some(1), Some(<<Item(Some(1), Some(2))>>))}
    [] e = "queries" -> { Body(Some(1), Some(<<Item(Some(2), Some(1))>>)),
                          Body(Some(1), Some(<<>>)),
                          Body(Some(9), Some(<<Item(Some(1), Some(1))>>)) }
    [] e = "bodies" -> GoodBodies \cup OddBodies
    [] OTHER -> GoodBodies

\* The raw query strings a request may carry: page, limit and q, None for a
\* parameter the URL lacks.
Query(p, l, q) == [page |-> p, limit |-> l, q |-> q]

PlainQuery == Query(None, Some(1), <<>>)

OddQueries ==
  { Query(Some(0), Some(1), <<" ">>),
    Query(Some(2), Some(1), <<>>),
    Query(None, Some(0), <<>>),
    Query(None, None, <<>>),
    Query(None, Some(1), <<"w">>) }

\* History: the request gives a page or a limit below 1.
NonPositive(query) ==
  \/ IsSome(query.page) /\ Val(query.page) <= 0
  \/ IsSome(query.limit) /\ Val(query.limit) <= 0

Queries(e) == IF e = "queries" THEN {PlainQuery} \cup OddQueries ELSE {PlainQuery}

ActiveListers(e) ==
  CASE e = "race" -> Listers [] e = "queries" -> {"L1"} [] OTHER -> {}
ActiveCreators(e) == IF e = "orders" THEN Creators ELSE {"K1"}

\* The "queries" run starts when a first POST has just answered: its order is
\* committed, its timer is set, and one listing (SeedKey) has been cached.
Seeded(e) == e = "queries"
SeedBody == Body(Some(1), Some(<<Item(Some(1), Some(2))>>))

\* ------------------------------------------------------------ GET /orders

\* Math.max(parseInt(req.query.page || '1', 10), 1), for a numeric raw value
ParseParam(raw, default) ==
  LET n == IF IsSome(raw) THEN Val(raw) ELSE default IN IF n > 1 THEN n ELSE 1

\* The item rows of an order as the response shows them.
ItemSnapshots(its, id) ==
  LET sq == SeqById(ItemsOf(its, id))
  IN [i \in DOMAIN sq |->
        [id |-> sq[i].id, quantity |-> sq[i].quantity, product |-> sq[i].product_id]]

\* One element of data: the order row with its user and its items.  users and
\* products are read-only, so their snapshots are their ids.
Snapshot(r, its) ==
  [id |-> r.id, status |-> r.status, created_at |-> <<"Date", r.created_at>>,
   user |-> r.user_id, items |-> ItemSnapshots(its, r.id)]

DataOf(rows, its) == [i \in DOMAIN rows |-> Snapshot(rows[i], its)]

\* const payload = { total, page, limit, data }
Payload(total, page, limit, data) ==
  [total |-> total, page |-> page, limit |-> limit, data |-> data]

IdleLister ==
  [pc |-> "idle", page |-> 1, limit |-> 1, q |-> <<>>, total |-> -1,
   rows |-> None, data |-> None, queries |-> 0, seen |-> {}, cmp |-> FALSE,
   atStart |-> 0, atRows |-> 0, nonPositive |-> FALSE, confirmed |-> {},
   readAt |-> 0]

KeyOf(r) == CacheKey(r.page, r.limit, r.q)

\* The seeded run starts after order 1 was created and GET /orders?page=2&limit=1
\* was answered: one order in all, none on the second page.
SeedKey == CacheKey(2, 1, <<>>)

SeedPayload == Payload(1, 2, 1, <<>>)

\* History: an answer.  kind is "list" or "create"; key, hit, queries, setAt
\* (when the cache entry behind the answer was written), expect, prev, atStart
\* and atRows (how many orders matched when the request started and when its
\* page query ran), nonPositive (the request gave a page or a limit below 1)
\* confirmed (the orders whose job had finished when the request started) and
\* readAt (when the store was first read for the payload) belong to a GET, reqBody, order and committed to a POST.
NoLast ==
  [kind |-> "none", status |-> 0, cause |-> "", body |-> None,
   key |-> CacheKey(0, 0, <<>>), hit |-> FALSE, queries |-> 0, setAt |-> 0,
   expect |-> {}, prev |-> None, atStart |-> 0, atRows |-> 0,
   nonPositive |-> FALSE, confirmed |-> {}, readAt |-> 0,
   reqBody |-> Body(None, None), order |-> 0, committed |-> FALSE]

\* History: no answer to compare with.  job: a confirmation job has taken a
\* step since the answer.
NoFirst == [key |-> CacheKey(0, 0, <<>>), body |-> None, setAt |-> 0, job |-> FALSE]

IdsIn(body) == {Val(body).json.data[i].id : i \in DOMAIN Val(body).json.data}

\* History: the orders a listing that started after their POST answered must
\* show: those of `seen` that match q, when the page is the first one and all
\* the matching orders fit in it.
Expected(r) ==
  IF r.page = 1 /\ CountQuery(orders, items, r.q) <= r.limit
  THEN {id \in r.seen : id \in OrderIds(Matching(orders, items, r.q))}
  ELSE {}

\* History: this call is compared with the answer in `first` when that is
\* one for the same key.
Comparable(key) == first.body # None /\ first.key = key

\* The answer of a GET.  prev: the answer it is compared with, if it comes
\* within the TTL of the entry that one was served from.
ListAnswer(r, status, body, cause, hit, setAt) ==
  [NoLast EXCEPT !.kind = "list", !.status = status, !.cause = cause,
                 !.body = body, !.key = KeyOf(r), !.hit = hit,
                 !.queries = r.queries, !.setAt = setAt,
                 !.atStart = r.atStart, !.atRows = r.atRows,
                 !.nonPositive = r.nonPositive,
                 !.confirmed = IF status = 200 THEN r.confirmed ELSE {},
                 !.readAt = IF status = 200 THEN r.readAt ELSE 0,
                 !.expect = IF status = 200 THEN Expected(r) ELSE {},
                 !.prev = IF status = 200 /\ r.cmp
                             /\ now - first.setAt < TTLSeconds
                          THEN Some([body |-> first.body, job |-> first.job])
                          ELSE None]

\* History: a 200 of a GET is the answer the next ones are compared with.
FirstOf(a) == [key |-> a.key, body |-> a.body, setAt |-> a.setAt, job |-> FALSE]

\* History: `first` is replaced or dropped: no call in flight is compared
\* with it any more.
NoteAnswer(ls) == [m \in Listers |-> [ls[m] EXCEPT !.cmp = FALSE]]

\* res.status(500).send('Error fetching orders')
ListError(r, cause) == ListAnswer(r, 500, None, cause, FALSE, 0)

\* History: the orders whose confirmation job has written CONFIRMED and
\* finished its cacheDelByPrefix.
JobsDone == {id \in DOMAIN jobs : jobs[id].pc = "done"}

\* router.get('/'): the parameters, the key, cacheGet and the answer on a hit.
ListStart(l) ==
  /\ l \in ActiveListers(env)
  /\ lister[l].pc = "idle"
  /\ sent[l] < MaxGets
  /\ sent' = [sent EXCEPT ![l] = @ + 1]
  /\ \E query \in Queries(env), cacheOk \in BOOLEAN :
       LET page == ParseParam(query.page, DefaultPage)
           limit == ParseParam(query.limit, DefaultLimit)
           q == Trim(query.q)
           key == CacheKey(page, limit, q)
           cached == CacheGet(cache, key)
           r == [IdleLister EXCEPT !.page = page, !.limit = limit, !.q = q,
                                   !.seen = acked, !.cmp = Comparable(key),
                                   !.atStart = Cardinality(Matching(orders, items, q)),
                                   !.nonPositive = NonPositive(query),
                                   !.confirmed = JobsDone]
       IN IF ~cacheOk
          THEN /\ last' = ListError(r, "cache")
               /\ UNCHANGED <<lister, first>>
          ELSE IF IsSome(cached)
          THEN /\ last' = ListAnswer([r EXCEPT !.readAt = readAt[key]], 200,
                                     Some(JSONStringify(Val(cached))), "",
                                     TRUE, cache[key].setAt)
               /\ first' = FirstOf(last')
               /\ lister' = NoteAnswer(lister)
          ELSE /\ last' = NoLast
               /\ first' = first
               /\ lister' = [lister EXCEPT ![l] = [r EXCEPT !.pc = "query"]]
  /\ UNCHANGED <<variant, env, now, nextId, nextItemId, orders, items,
                 cache, creator, jobs, acked, reqItems, readAt>>

\* db.query(totalSql) / prisma.order.count: first in "pg", in either order
\* with the page query under Promise.all.
ListCount(l) ==
  /\ lister[l].pc = "query"
  /\ lister[l].total = -1
  /\ \E dbOk \in BOOLEAN :
       LET r == lister[l] IN
       IF ~dbOk
       THEN /\ last' = ListError(r, "store")
            /\ lister' = [lister EXCEPT ![l] = IdleLister]
       ELSE /\ last' = NoLast
            /\ lister' = [lister EXCEPT ![l] =
                 [r EXCEPT !.total = CountQuery(orders, items, r.q),
                           !.readAt = IF r.queries = 0 THEN now ELSE r.readAt,
                           !.queries = r.queries + 1,
                           !.pc = IF r.data # None THEN "set" ELSE "query"]]
  /\ UNCHANGED <<variant, env, now, nextId, nextItemId, orders, items,
                 cache, creator, jobs, sent, acked, reqItems, first, readAt>>

\* db.query(listSql) / prisma.order.findMany with its includes.
ListRows(l) ==
  /\ lister[l].pc = "query"
  /\ lister[l].data = None
  /\ variant = "pg" => lister[l].total # -1
  /\ \E dbOk \in BOOLEAN :
       LET r == lister[l] IN
       \E rows \in ListQuery(orders, items, r.q, r.limit, (r.page - 1) * r.limit) :
         IF ~dbOk
         THEN /\ last' = ListError(r, "store")
              /\ lister' = [lister EXCEPT ![l] = IdleLister]
         ELSE /\ last' = NoLast
              /\ lister' = [lister EXCEPT ![l] =
                   IF variant = "pg"
                   THEN [r EXCEPT !.rows = IF rows = <<>> THEN None ELSE Some(rows),
                                  !.queries = r.queries + 1,
                                  !.atRows = Cardinality(Matching(orders, items, r.q)),
                                  !.readAt = IF r.queries = 0 THEN now ELSE r.readAt,
                                  !.data = IF rows = <<>> THEN Some(<<>>) ELSE None,
                                  !.pc = IF rows = <<>> THEN "set" ELSE "items"]
                   ELSE [r EXCEPT !.queries = r.queries + 1,
                                  !.atRows = Cardinality(Matching(orders, items, r.q)),
                                  !.readAt = IF r.queries = 0 THEN now ELSE r.readAt,
                                  !.data = Some(DataOf(rows, items)),
                                  !.pc = IF r.total # -1 THEN "set" ELSE "query"]]
  /\ UNCHANGED <<variant, env, now, nextId, nextItemId, orders, items,
                 cache, creator, jobs, sent, acked, reqItems, first, readAt>>

\* "pg": the items of the page's orders, and the data built from both.
ListItems(l) ==
  /\ lister[l].pc = "items"
  /\ \E dbOk \in BOOLEAN :
       LET r == lister[l] IN
       IF ~dbOk
       THEN /\ last' = ListError(r, "store")
            /\ lister' = [lister EXCEPT ![l] = IdleLister]
       ELSE /\ last' = NoLast
            /\ lister' = [lister EXCEPT ![l] =
                 [r EXCEPT !.data = Some(DataOf(Val(r.rows), items)),
                           !.rows = None, !.queries = r.queries + 1,
                           !.pc = "set"]]
  /\ UNCHANGED <<variant, env, now, nextId, nextItemId, orders, items,
                 cache, creator, jobs, sent, acked, reqItems, first, readAt>>

\* await cacheSet(cacheKey, payload, 30); res.json(payload)
ListSet(l) ==
  /\ lister[l].pc = "set"
  /\ \E cacheOk \in BOOLEAN :
       LET r == lister[l]
           payload == Payload(r.total, r.page, r.limit, Val(r.data))
       IN IF ~cacheOk
          THEN /\ last' = ListError(r, "cache")
               /\ lister' = [lister EXCEPT ![l] = IdleLister]
               /\ UNCHANGED <<cache, first, readAt>>
          ELSE /\ cache' = CacheSet(cache, KeyOf(r), payload, TTLSeconds, now)
               /\ readAt' = NoteRead(readAt, KeyOf(r), r.readAt)
               /\ last' = ListAnswer(r, 200, Some(JSONStringify(payload)), "",
                                     FALSE, now)
               /\ first' = FirstOf(last')
               /\ lister' = [NoteAnswer(lister) EXCEPT ![l] = IdleLister]
  /\ UNCHANGED <<variant, env, now, nextId, nextItemId, orders, items,
                 creator, jobs, sent, acked, reqItems>>

\* History: a step of a confirmation job: the answer to compare with notes it.
JobFirst(a) == IF a.body = None THEN a ELSE [a EXCEPT !.job = TRUE]

\* ----------------------------------------------------------- POST /orders

\* !x for an optional number: undefined and 0 are falsy
Falsy(o) == o = None \/ Val(o) = 0

\* if (!user_id || !Array.isArray(items) || !items.length) -> 400
MissingFields(body) ==
  Falsy(body.user_id) \/ body.items = None \/ Len(Val(body.items)) = 0

\* if (!it?.product_id || !it?.quantity || it.quantity <= 0) -> 400
BadItem(it) == Falsy(it.product_id) \/ Falsy(it.quantity) \/ Val(it.quantity) <= 0

\* The 400s of each version: only "tx" looks at the items.
Rejects(v, body) ==
  \/ MissingFields(body)
  \/ v = "tx" /\ \E i \in DOMAIN Val(body.items) : BadItem(Val(body.items)[i])

\* The status a row gets when the INSERT names none ("nested").
DefaultStatus == "PENDING"

\* INSERT INTO orders (user_id, status) VALUES ($1, 'PENDING') RETURNING ...
InsertedStatus(v) == IF v = "nested" THEN DefaultStatus ELSE "PENDING"

\* The foreign key orders.user_id -> users.id
OrderInsertable(body) == UserExists(Val(body.user_id))

\* order_items: product_id and quantity NOT NULL, product_id -> products.id
ItemInsertable(it) ==
  /\ it.product_id # None /\ it.quantity # None
  /\ ProductExists(Val(it.product_id))

ItemsInsertable(body) ==
  \A i \in DOMAIN Val(body.items) : ItemInsertable(Val(body.items)[i])

\* Variation: the item rows take the newest order id of the store's sequence
\* instead of the id the call's own INSERT returned.
NewItemRowsNewest(id, its, firstId) ==
  {[id |-> firstId + i - 1, order_id |-> nextId - 1,
    product_id |-> Val(its[i].product_id), quantity |-> Val(its[i].quantity)] :
     i \in DOMAIN its}

\* INSERT INTO order_items (order_id, product_id, quantity) VALUES ...
NewItemRows(id, its, firstId) ==
  {[id |-> firstId + i - 1, order_id |-> id,
    product_id |-> Val(its[i].product_id), quantity |-> Val(its[i].quantity)] :
     i \in DOMAIN its}

IdleCreator ==
  [pc |-> "idle", body |-> Body(None, None), order |-> None, txItems |-> {},
   keys |-> {}, committed |-> FALSE, cause |-> ""]

\* The answer of a POST.
CreateAnswer(r, status, body, cause) ==
  [NoLast EXCEPT !.kind = "create", !.status = status, !.cause = cause,
                 !.body = body, !.reqBody = r.body,
                 !.order = IF r.order = None THEN 0 ELSE Val(r.order).id,
                 !.committed = r.committed]

\* res.json({ ...order, items }) / res.json({ id: created.id, ... })
CreatedBody(r, row, its) ==
  [id |-> row.id, status |-> row.status, created_at |-> <<"ISO", row.created_at>>,
   user |-> row.user_id,
   items |-> IF variant = "pg" THEN Val(r.body.items) ELSE ItemSnapshots(its, row.id)]

\* Variation: the job's body started where the timer is set.
ScheduleStarted(js, id, t) ==
  [j \in DOMAIN js \cup {id} |->
     IF j = id THEN [pc |-> "keys", due |-> t, keys |-> {}] ELSE js[j]]

\* setTimeout(async () => {...}, 2000)
Schedule(js, id, t) ==
  [j \in DOMAIN js \cup {id} |->
     IF j = id THEN [pc |-> "timer", due |-> t + ConfirmDelay, keys |-> {}]
     ELSE js[j]]

\* catch (err): "pg" issues ROLLBACK before it answers, the others answer.
CreateFailed(k, r, cause) ==
  IF variant = "pg"
  THEN /\ creator' = [creator EXCEPT ![k] =
            [r EXCEPT !.pc = "rollback", !.cause = cause, !.txItems = {},
                      !.keys = {}]]
       /\ last' = NoLast
  ELSE /\ creator' = [creator EXCEPT ![k] = IdleCreator]
       /\ last' = CreateAnswer(r, 500, None, cause)

\* The code after `await cacheDelByPrefix`: setTimeout and res.json.
CreateSucceeded(k, r) ==
  /\ jobs' = Schedule(jobs, Val(r.order).id, now)
  /\ acked' = acked \cup {Val(r.order).id}
  /\ creator' = [creator EXCEPT ![k] = IdleCreator]
  /\ last' = CreateAnswer(r, 200, Some(CreatedBody(r, Val(r.order), items)), "")

\* router.post('/'): the checks of the body.
CreateStart(k) ==
  /\ k \in ActiveCreators(env)
  /\ creator[k].pc = "idle"
  /\ sent[k] < MaxPosts
  /\ sent' = [sent EXCEPT ![k] = @ + 1]
  /\ \E body \in Bodies(env) :
       LET r == [IdleCreator EXCEPT !.body = body] IN
       IF Rejects(variant, body)
       THEN /\ creator' = creator
            /\ last' = CreateAnswer(r, 400, None, "validation")
       ELSE /\ creator' = [creator EXCEPT ![k] = [r EXCEPT !.pc = "insertOrder"]]
            /\ last' = NoLast
  /\ lister' = NoteAnswer(lister)
  /\ first' = NoFirst
  /\ UNCHANGED <<variant, env, now, nextId, nextItemId, orders, items,
                 cache, jobs, acked, reqItems, readAt>>

\* BEGIN and INSERT INTO orders / tx.order.create; in "nested" the one
\* prisma.order.create that inserts the order and its items.
CreateInsertOrder(k) ==
  /\ creator[k].pc = "insertOrder"
  /\ \E dbOk \in BOOLEAN :
       LET r == creator[k]
           its == Val(r.body.items)
           row == [id |-> nextId, user_id |-> Val(r.body.user_id),
                   status |-> InsertedStatus(variant), created_at |-> now]
           rows == NewItemRows(nextId, its, nextItemId)
           noted == [o \in DOMAIN reqItems \cup {nextId} |->
                       IF o = nextId THEN Len(its) ELSE reqItems[o]]
       IN /\ nextId' = nextId + 1
          /\ IF ~dbOk \/ ~OrderInsertable(r.body)
             THEN /\ CreateFailed(k, r, IF dbOk THEN "fk" ELSE "store")
                  /\ UNCHANGED <<nextItemId, orders, items, reqItems>>
             ELSE IF variant # "nested"
             THEN /\ creator' = [creator EXCEPT ![k] =
                       [r EXCEPT !.order = Some(row), !.pc = "insertItems"]]
                  /\ last' = NoLast
                  /\ orders' = BeforeCommit(orders, {row})
                  /\ reqItems' = noted
                  /\ UNCHANGED <<nextItemId, items>>
             ELSE IF ~ItemsInsertable(r.body)
             THEN /\ CreateFailed(k, r, "fk")
                  /\ UNCHANGED <<nextItemId, orders, items, reqItems>>
             ELSE /\ creator' = [creator EXCEPT ![k] =
                       [r EXCEPT !.order = Some(row), !.committed = TRUE,
                                 !.pc = "keys"]]
                  /\ last' = NoLast
                  /\ nextItemId' = nextItemId + Len(its)
                  /\ orders' = AfterCommit(orders, {row})
                  /\ items' = AfterCommit(items, rows)
                  /\ reqItems' = noted
  /\ lister' = NoteAnswer(lister)
  /\ first' = NoFirst
  /\ UNCHANGED <<variant, env, now, cache, jobs, sent, acked, readAt>>

\* INSERT INTO order_items ... / tx.orderItem.createMany
CreateInsertItems(k) ==
  /\ creator[k].pc = "insertItems"
  /\ \E dbOk \in BOOLEAN :
       LET r == creator[k]
           its == Val(r.body.items)
           rows == NewItemRows(Val(r.order).id, its, nextItemId)
       IN IF ~dbOk \/ ~ItemsInsertable(r.body)
          THEN /\ CreateFailed(k, r, IF dbOk THEN "fk" ELSE "store")
               /\ UNCHANGED <<nextItemId, items>>
          ELSE /\ creator' = [creator EXCEPT ![k] =
                    [r EXCEPT !.txItems = rows, !.pc = "commit"]]
               /\ last' = NoLast
               /\ nextItemId' = nextItemId + Len(its)
               /\ items' = BeforeCommit(items, rows)
  /\ lister' = NoteAnswer(lister)
  /\ first' = NoFirst
  /\ UNCHANGED <<variant, env, now, nextId, orders, cache, jobs, sent, acked,
                 reqItems, readAt>>

\* COMMIT / the end of prisma.$transaction
CreateCommit(k) ==
  /\ creator[k].pc = "commit"
  /\ \E dbOk \in BOOLEAN :
       LET r == creator[k] IN
       IF ~dbOk
       THEN /\ CreateFailed(k, r, "store")
            /\ UNCHANGED <<orders, items>>
       ELSE /\ creator' = [creator EXCEPT ![k] =
                 [r EXCEPT !.committed = TRUE, !.txItems = {}, !.pc = "keys"]]
            /\ last' = NoLast
            /\ orders' = AfterCommit(orders, {Val(r.order)})
            /\ items' = AfterCommit(items, r.txItems)
  /\ lister' = NoteAnswer(lister)
  /\ first' = NoFirst
  /\ UNCHANGED <<variant, env, now, nextId, nextItemId, cache, jobs, sent, acked,
                 reqItems, readAt>>

\* cacheDelByPrefix: redis.keys; with no key there is no DEL
CreateKeys(k) ==
  /\ creator[k].pc = "keys"
  /\ \E cacheOk \in BOOLEAN :
       LET r == creator[k]
           keys == CacheKeys(cache, ListPrefix)
       IN IF ~cacheOk
          THEN /\ CreateFailed(k, r, "cache")
               /\ UNCHANGED <<jobs, acked>>
          ELSE IF keys = {}
          THEN CreateSucceeded(k, r)
          ELSE /\ creator' = [creator EXCEPT ![k] =
                    [r EXCEPT !.keys = keys, !.pc = "del"]]
               /\ last' = NoLast
               /\ UNCHANGED <<jobs, acked>>
  /\ lister' = NoteAnswer(lister)
  /\ first' = NoFirst
  /\ UNCHANGED <<variant, env, now, nextId, nextItemId, orders, items,
                 cache, reqItems, sent, readAt>>

\* cacheDelByPrefix: redis.del(keys), then the timer and the answer
CreateDel(k) ==
  /\ creator[k].pc = "del"
  /\ \E cacheOk \in BOOLEAN :
       LET r == creator[k] IN
       IF ~cacheOk
       THEN /\ CreateFailed(k, r, "cache")
            /\ UNCHANGED <<cache, jobs, acked, readAt>>
       ELSE /\ cache' = CacheDel(cache, r.keys)
            /\ readAt' = Kept(readAt, cache')
            /\ CreateSucceeded(k, r)
  /\ lister' = NoteAnswer(lister)
  /\ first' = NoFirst
  /\ UNCHANGED <<variant, env, now, nextId, nextItemId, orders, items,
                 reqItems, sent>>

\* "pg": await client.query('ROLLBACK'); res.status(500)
CreateRollback(k) ==
  /\ creator[k].pc = "rollback"
  /\ creator' = [creator EXCEPT ![k] = IdleCreator]
  /\ last' = CreateAnswer(creator[k], 500, None, creator[k].cause)
  /\ lister' = NoteAnswer(lister)
  /\ first' = NoFirst
  /\ UNCHANGED <<variant, env, now, nextId, nextItemId, orders, items,
                 cache, jobs, sent, acked, reqItems, readAt>>

\* ------------------------------------------------------- confirmation job

\* Variation: a job that failed sets its timer again.
JobStepRetry(js, id, pc, keys) ==
  [js EXCEPT ![id].pc = IF pc = "failed" THEN "timer" ELSE pc,
             ![id].keys = keys,
             ![id].due = IF pc = "failed" THEN @ + ConfirmDelay ELSE @]

\* The callback moves on: pc is "timer", "keys", "del", "done" or "failed".
JobStep(js, id, pc, keys) == [js EXCEPT ![id].pc = pc, ![id].keys = keys]

\* The timer fires: UPDATE orders SET status='CONFIRMED' WHERE id=$1; a
\* failure goes to the catch, which logs it.
JobFire(id) ==
  /\ id \in DOMAIN jobs
  /\ jobs[id].pc = "timer"
  /\ now >= jobs[id].due
  /\ \E dbOk \in BOOLEAN :
       IF dbOk
       THEN /\ orders' = UpdateConfirmed(orders, id)
            /\ jobs' = JobStep(jobs, id, "keys", {})
       ELSE /\ orders' = orders
            /\ jobs' = JobStep(jobs, id, "failed", {})
  /\ last' = NoLast
  /\ first' = JobFirst(first)
  /\ UNCHANGED <<variant, env, now, nextId, nextItemId, items, cache, lister,
                 creator, sent, acked, reqItems, readAt>>

\* cacheDelByPrefix in the job: redis.keys
JobKeys(id) ==
  /\ id \in DOMAIN jobs
  /\ jobs[id].pc = "keys"
  /\ \E cacheOk \in BOOLEAN :
       LET keys == CacheKeys(cache, ListPrefix) IN
       jobs' = JobStep(jobs, id,
                       IF ~cacheOk THEN "failed" ELSE IF keys = {} THEN "done" ELSE "del",
                       IF cacheOk THEN keys ELSE {})
  /\ last' = NoLast
  /\ first' = JobFirst(first)
  /\ UNCHANGED <<variant, env, now, nextId, nextItemId, orders, items,
                 cache, lister, creator, sent, acked, reqItems, readAt>>

\* cacheDelByPrefix in the job: redis.del(keys)
JobDel(id) ==
  /\ id \in DOMAIN jobs
  /\ jobs[id].pc = "del"
  /\ \E cacheOk \in BOOLEAN :
       IF cacheOk
       THEN /\ cache' = CacheDel(cache, jobs[id].keys)
            /\ readAt' = Kept(readAt, cache')
            /\ jobs' = JobStep(jobs, id, "done", {})
       ELSE /\ UNCHANGED <<cache, readAt>>
            /\ jobs' = JobStep(jobs, id, "failed", {})
  /\ last' = NoLast
  /\ first' = JobFirst(first)
  /\ UNCHANGED <<variant, env, now, nextId, nextItemId, orders, items, lister,
                 creator, sent, acked, reqItems>>

\* ------------------------------------------------------------------- time

\* A timer that has not reached its time.
TimerPending == \E id \in DOMAIN jobs : jobs[id].pc = "timer" /\ jobs[id].due > now

Tick ==
  /\ now + TickStep <= MaxTime \/ TimerPending
  /\ now' = now + TickStep
  /\ cache' = Expire(cache, now')
  /\ readAt' = Kept(readAt, cache')
  /\ last' = NoLast
  /\ UNCHANGED <<variant, env, nextId, nextItemId, orders, items, lister,
                 creator, jobs, sent, acked, reqItems, first>>

\* ------------------------------------------------------------ specification

Init ==
  /\ variant \in Variants
  /\ env \in Envs
  /\ now = 0
  /\ nextId = IF Seeded(env) THEN 2 ELSE 1
  /\ nextItemId = IF Seeded(env) THEN 2 ELSE 1
  /\ orders = IF Seeded(env)
              THEN {[id |-> 1, user_id |-> Val(SeedBody.user_id),
                     status |-> InsertedStatus(variant), created_at |-> 0]}
              ELSE {}
  /\ items = IF Seeded(env) THEN NewItemRows(1, Val(SeedBody.items), 1) ELSE {}
  /\ cache = IF Seeded(env)
             THEN CacheSet(<<>>, SeedKey, SeedPayload, TTLSeconds, 0)
             ELSE <<>>
  /\ lister = [l \in Listers |-> IdleLister]
  /\ creator = [k \in Creators |-> IdleCreator]
  /\ jobs = IF Seeded(env) THEN Schedule(<<>>, 1, 0) ELSE <<>>
  /\ sent = [c \in Listers \cup Creators |-> 0]
  /\ readAt = IF Seeded(env) THEN NoteRead(<<>>, SeedKey, 0) ELSE <<>>
  /\ acked = IF Seeded(env) THEN {1} ELSE {}
  /\ reqItems = IF Seeded(env) THEN <<Len(Val(SeedBody.items))>> ELSE <<>>
  /\ last = NoLast
  /\ first = NoFirst

Next ==
  \/ \E l \in Listers : ListStart(l)
  \/ \E l \in Listers : ListCount(l)
  \/ \E l \in Listers : ListRows(l)
  \/ \E l \in Listers : ListItems(l)
  \/ \E l \in Listers : ListSet(l)
  \/ \E k \in Creators : CreateStart(k)
  \/ \E k \in Creators : CreateInsertOrder(k)
  \/ \E k \in Creators : CreateInsertItems(k)
  \/ \E k \in Creators : CreateCommit(k)
  \/ \E k \in Creators : CreateKeys(k)
  \/ \E k \in Creators : CreateDel(k)
  \/ \E k \in Creators : CreateRollback(k)
  \/ \E id \in DOMAIN jobs : JobFire(id)
  \/ \E id \in DOMAIN jobs : JobKeys(id)
  \/ \E id \in DOMAIN jobs : JobDel(id)
  \/ Tick

Spec == Init /\ [][Next]_vars

\* The event loop runs every callback that is ready, the store and the cache
\* answer every call, and the clock advances: each step of a request in
\* flight and of a confirmation job is taken once it can be.  Whether a client
\* sends a request is left open.
FairSpec ==
  /\ Spec
  /\ \A l \in Listers :
       WF_vars(ListCount(l) \/ ListRows(l) \/ ListItems(l) \/ ListSet(l))
  /\ \A k \in Creators :
       WF_vars(CreateInsertOrder(k) \/ CreateInsertItems(k) \/ CreateCommit(k)
                 \/ CreateKeys(k) \/ CreateDel(k) \/ CreateRollback(k))
  /\ WF_vars(\E id \in DOMAIN jobs : JobFire(id) \/ JobKeys(id) \/ JobDel(id))
  /\ WF_vars(Tick)

\* ------------------------------------------------------------------ claims

\* The ids the orders sequence can hand out.
AllIds == 1..(Cardinality(Creators) * MaxPosts + 1)

HasStatus(id, status) == \E r \in orders : r.id = id /\ r.status = status

\* C1: a listing that starts after a creation has answered success, and whose
\* page would hold the new order, returns a payload that holds it.
C1_ListingShowsCreatedOrder ==
  last.kind = "list" /\ last.status = 200 => last.expect \subseteq IdsIn(last.body)

\* The confirmation job of the order has met a store failure: the order stays
\* PENDING, which section 4.4 accepts.
JobStoreFailed(id) ==
  id \in DOMAIN jobs /\ jobs[id].pc = "failed" /\ HasStatus(id, "PENDING")

\* C2: an order is PENDING in the response of its creation and in the store
\* when it is committed, and every committed order is CONFIRMED in the end
\* (unless the store write of its confirmation job fails).
C2_PendingThenConfirmed ==
  /\ [](last.kind = "create" /\ last.status = 200
          => Val(last.body).status = "PENDING")
  /\ []( \A k \in Creators :
           creator[k].committed /\ creator[k].pc = "keys"
             => HasStatus(Val(creator[k].order).id, "PENDING"))
  /\ \A id \in AllIds :
       (id \in OrderIds(orders)) ~> (HasStatus(id, "CONFIRMED") \/ JobStoreFailed(id))

\* C3: the only change of an order's status is PENDING to CONFIRMED, made by
\* the firing of that order's confirmation job; no row disappears, so a
\* CONFIRMED order stays CONFIRMED.
C3_StatusOnlyConfirmedByJob ==
  [][\A r \in orders :
       /\ \E r2 \in orders' : r2.id = r.id
       /\ \A r2 \in orders' :
            r2.id = r.id /\ r2.status # r.status
              => /\ r.status = "PENDING" /\ r2.status = "CONFIRMED"
                 /\ r.id \in DOMAIN jobs
                 /\ jobs[r.id].pc = "timer" /\ jobs'[r.id].pc = "keys"]_vars

\* A job has confirmed its order while another order is still PENDING.
C3_Witness ==
  \E r, r2 \in orders : r.status = "CONFIRMED" /\ r2.status = "PENDING"

\* C4: an order row is in the store exactly with all the item rows of its
\* request, of which there is at least one; a creation that fails leaves no
\* row of its own.
C4_OrderIffAllItems ==
  /\ \A it \in items : it.order_id \in OrderIds(orders)
  /\ \A r \in orders :
       /\ r.id \in DOMAIN reqItems
       /\ reqItems[r.id] > 0
       /\ Cardinality(ItemsOf(items, r.id)) = reqItems[r.id]
  /\ last.kind = "create" /\ last.status = 500 /\ ~last.committed
       => /\ last.order \notin OrderIds(orders)
          /\ ItemsOf(items, last.order) = {}

\* A creation has failed on its items after it had inserted its order row.
C4_Witness ==
  /\ last.kind = "create" /\ last.status = 500 /\ last.cause = "fk"
  /\ last.order # 0

\* C5: no answer of GET /orders or POST /orders is an error that a failure of
\* a cache operation caused.
C5_CacheFailureNeverSurfaces ==
  last.kind # "none" /\ last.cause = "cache" => last.status = 200

\* C6 as stated: a listing answers as the listing before it did, when both
\* have the same parameters, the second comes within the TTL of the first and
\* no creation ran between them.
C6_SameAnswerWithinTTL ==
  last.prev # None => last.body = Val(last.prev).body

\* C6: the same, when no confirmation job took a step between the two either.
C6_SameAnswerWithinTTLNoJob ==
  last.prev # None /\ ~Val(last.prev).job => last.body = Val(last.prev).body

\* The second of two such listings has answered from the cache, and the
\* answer shows an order.
C6_Witness ==
  /\ last.prev # None /\ ~Val(last.prev).job
  /\ last.hit /\ IdsIn(last.body) # {}

\* The keys the requests of this run can ask for.
RequestKeys ==
  {CacheKey(ParseParam(query.page, DefaultPage),
            ParseParam(query.limit, DefaultLimit), Trim(query.q)) :
     query \in Queries(env)}

\* The step deletes key through cacheDelByPrefix, of a POST or of a job.
DeletedByPrefix(key) ==
  \/ \E k \in Creators :
       creator[k].pc = "del" /\ key \in creator[k].keys /\ creator'[k].pc # "del"
  \/ \E id \in DOMAIN jobs :
       jobs[id].pc = "del" /\ key \in jobs[id].keys /\ jobs'[id].pc = "done"

\* The step writes key through cacheSet.
Overwritten(key) ==
  /\ key \in DOMAIN cache' /\ cache'[key].setAt = now
  /\ \E l \in Listers :
       lister[l].pc = "set" /\ KeyOf(lister[l]) = key /\ lister'[l].pc = "idle"

\* C7: cacheGet gives an entry only within ttlSeconds of the cacheSet that
\* wrote it and null for a key that is not there; an entry goes away or
\* changes only by its expiry, a prefix invalidation or a cacheSet.
C7_EntryOnlyWithinTTL ==
  /\ [](\A key \in RequestKeys :
          IF IsSome(CacheGet(cache, key))
          THEN key \in DOMAIN cache /\ now - cache[key].setAt < TTLSeconds
          ELSE CacheGet(cache, key) = None /\ key \notin DOMAIN cache)
  /\ [][\A key \in DOMAIN cache :
          key \notin DOMAIN cache' \/ cache'[key] # cache[key]
            => \/ now' - cache[key].setAt >= TTLSeconds
               \/ DeletedByPrefix(key)
               \/ Overwritten(key)]_vars

\* More than the TTL after the cacheSet behind a listing, its key is absent.
C7_Witness ==
  /\ first.body # None /\ now - first.setAt > TTLSeconds
  /\ CacheGet(cache, first.key) = None

\* C8: a hit answers the entry's text with no store query; a request queries
\* the store only after cacheGet gave null; a miss has written its payload
\* under the key of its own parameters, for 30 seconds, when it answers.
C8_HitBypassesStore ==
  /\ [](last.kind = "list" /\ last.status = 200
          => /\ last.key \in DOMAIN cache
             /\ cache[last.key].val = Val(last.body)
             /\ last.key[3] = Val(last.body).json.page
             /\ last.key[5] = Val(last.body).json.limit
             /\ IF last.hit
                THEN last.queries = 0
                ELSE /\ last.queries > 0
                     /\ cache[last.key].setAt = now
                     /\ cache[last.key].exp = now + TTLSeconds)
  /\ [][\A l \in Listers :
          /\ lister'[l].queries > lister[l].queries
               => lister[l].pc \in {"query", "items"}
          /\ lister[l].pc = "idle" /\ lister'[l].pc # "idle"
               => CacheGet(cache, KeyOf(lister'[l])) = None]_vars

\* A listing has answered from the cache, and the answer shows an order.
C8_Witness ==
  last.kind = "list" /\ last.hit /\ IdsIn(last.body) # {}

\* The bodies the specification rejects.
InvalidBody(body) ==
  \/ body.user_id = None \/ Val(body.user_id) <= 0
  \/ body.items = None \/ Val(body.items) = <<>>
  \/ \E i \in DOMAIN Val(body.items) :
       LET it == Val(body.items)[i]
       IN \/ it.product_id = None
          \/ it.quantity = None \/ Val(it.quantity) <= 0

\* C9: a POST with such a body goes no further than its checks, and its
\* answer is the validation error.
C9_RejectsInvalidBody ==
  /\ \A k \in Creators : creator[k].pc # "idle" => ~InvalidBody(creator[k].body)
  /\ last.kind = "create" /\ InvalidBody(last.reqBody) => last.status = 400

\* The body names a user or a product that is not there.
DanglingBody(body) ==
  /\ ~InvalidBody(body)
  /\ \/ ~UserExists(Val(body.user_id))
     \/ \E i \in DOMAIN Val(body.items) :
          ~ProductExists(Val(Val(body.items)[i].product_id))

\* C10: a POST with a well-formed body that names a missing user or product
\* attempts no insert and answers a not-found error, not the internal one.
C10_NotFoundBeforeInsert ==
  /\ \A k \in Creators : creator[k].pc # "idle" => ~DanglingBody(creator[k].body)
  /\ last.kind = "create" /\ DanglingBody(last.reqBody)
       => last.status = 404 /\ last.cause = "notfound"

\* C11: a POST that answers the validation error, and every step of a POST
\* whose body names a missing user or product, leaves the rows of the store,
\* the cache entries and the timers as they were.
C11_RejectedCallChangesNothing ==
  [][(\/ last'.kind = "create" /\ last'.status = 400
      \/ \E k \in Creators :
           /\ creator[k].pc # "idle" /\ DanglingBody(creator[k].body)
           /\ creator'[k] # creator[k])
       => /\ orders' = orders /\ items' = items
          /\ cache' = cache /\ jobs' = jobs]_vars

\* A POST has answered the validation error while the store holds an order,
\* the cache an entry and a timer is set.
C11_Witness ==
  /\ last.kind = "create" /\ last.status = 400
  /\ orders # {} /\ DOMAIN cache # {} /\ DOMAIN jobs # {}


\* The request parameters behind a key.
QOf(key) == key[7]

\* C12: a payload computed from the store has at most limit elements of data,
\* and its total is the number of orders that match the search term in the
\* store its page was read from.
C12_TotalIsCountOfPageState ==
  last.kind = "list" /\ last.status = 200 /\ ~last.hit
    => /\ Len(Val(last.body).json.data) <= Val(last.body).json.limit
       /\ Val(last.body).json.total = last.atRows

\* What holds of the total instead: it is the number of orders that matched
\* at a moment of the call, no fewer than matched when the call started and no
\* more than match when it answers.
C12_TotalIsCountDuringCall ==
  last.kind = "list" /\ last.status = 200 /\ ~last.hit
    => /\ Len(Val(last.body).json.data) <= Val(last.body).json.limit
       /\ last.atStart <= Val(last.body).json.total
       /\ Val(last.body).json.total
            <= Cardinality({r \in orders : Matches(r, items, QOf(last.key))})

\* C13: a GET whose page or limit is below 1 goes no further than its checks
\* and, the store and the cache not failing, answers a validation error; any
\* other GET answers an error only when the store or the cache has failed,
\* and answers total 0 with empty data when no order matches.
C13_ValidatesPageAndLimit ==
  /\ \A l \in Listers : lister[l].pc # "idle" => ~lister[l].nonPositive
  /\ last.kind = "list" /\ last.nonPositive /\ last.cause = "" => last.status = 400
  /\ last.kind = "list" /\ ~last.nonPositive /\ last.status # 200
       => last.cause \in {"store", "cache"}
  /\ last.kind = "list" /\ last.status = 200 /\ Val(last.body).json.total = 0
       => Val(last.body).json.data = <<>>

\* C14: when the UPDATE of a confirmation job fails, the job ends there and
\* never runs again, the step sends no answer and touches no request, the
\* order stays PENDING and the answer of its POST stays given.
C14_FailedJobIsTerminal ==
  [][\A id \in DOMAIN jobs :
       /\ jobs[id].pc = "timer" /\ jobs'[id] # jobs[id]
            /\ ~(\E r \in orders' : r.id = id /\ r.status = "CONFIRMED")
            => /\ jobs'[id].pc = "failed"
               /\ orders' = orders /\ items' = items /\ cache' = cache
               /\ last' = NoLast
               /\ lister' = lister /\ creator' = creator
               /\ acked' = acked /\ id \in acked
       /\ jobs[id].pc = "failed" => jobs'[id] = jobs[id]
       /\ JobStoreFailed(id) => HasStatus(id, "PENDING")']_vars

\* The UPDATE of a job has failed, and a later listing has answered.
C14_Witness ==
  /\ \E id \in DOMAIN jobs : JobStoreFailed(id) /\ id \in acked
  /\ last.kind = "list" /\ last.status = 200

\* C15: a listing that starts after the confirmation job of an order has
\* finished shows that order, if it shows it, as CONFIRMED.
C15_ListingShowsConfirmed ==
  last.kind = "list" /\ last.status = 200
    => \A i \in DOMAIN Val(last.body).json.data :
         Val(last.body).json.data[i].id \in last.confirmed
           => Val(last.body).json.data[i].status = "CONFIRMED"

\* C16 as stated: the store read behind every payload a listing returns is at
\* most 30 seconds old.
C16_PayloadAtMostTTLOld ==
  last.kind = "list" /\ last.status = 200 => now - last.readAt <= TTLSeconds

\* C16: every payload a listing returns was written to the cache less than 30
\* seconds ago, unless the call computed it itself, and was read from the
\* store no later than it was written.
C16_PayloadServedWithinTTLOfWrite ==
  last.kind = "list" /\ last.status = 200
    => /\ now - last.setAt < TTLSeconds
       /\ last.readAt <= last.setAt
       /\ ~last.hit => last.setAt = now

\* A listing has answered from the cache a payload that was written after
\* the store was read for it, and whose order the store now shows otherwise.
C16_Witness ==
  /\ last.kind = "list" /\ last.hit
  /\ last.readAt < last.setAt /\ last.setAt < now
  /\ \E i \in DOMAIN Val(last.body).json.data :
       ~HasStatus(Val(last.body).json.data[i].id,
                  Val(last.body).json.data[i].status)

\* The keys of c that start with the listing prefix.
Prefixed(c) == {x \in DOMAIN c : x[1] = ListPrefix}

\* The caller's invalidation returns in this step; keys is what its KEYS saw
\* ({} when this step is the KEYS itself, which found nothing to delete).
Invalidated(keys, began) ==
  /\ began => Prefixed(cache) = {}
  /\ \A x \in Prefixed(cache) : x \in keys => x \notin DOMAIN cache'
  /\ \A x \in DOMAIN cache' :
       x \in DOMAIN cache /\ cache'[x] = cache[x] /\ x \notin keys
  /\ Prefixed(cache) \subseteq keys => Prefixed(cache') = {}

C18_NewestFirstTiesByIdDesc ==
  last.kind = "list" /\ last.status = 200
    => LET data == Val(last.body).json.data IN
       \A i, j \in DOMAIN data :
         i < j => \/ data[i].created_at[2] > data[j].created_at[2]
                  \/ /\ data[i].created_at[2] = data[j].created_at[2]
                     /\ data[i].id > data[j].id

\* C19: a creation invalidates the cache only with its order committed; the
\* job of an order is scheduled, not yet run, in the step that ends the
\* invalidation and sends the 200 response, and every 200 response comes with
\* that scheduling; a job runs only after the response for its order was sent
\* and its delay has passed, and its steps send nothing and take no response
\* back.
C19_CommitInvalidateScheduleRespond ==
  [][/\ \A k \in Creators :
          creator'[k].pc \in {"keys", "del"}
            => /\ creator'[k].committed
               /\ \E r \in orders' : r.id = Val(creator'[k].order).id
     /\ \A id \in DOMAIN jobs' \ DOMAIN jobs :
          /\ \E k \in Creators :
               /\ creator[k].pc \in {"keys", "del"} /\ creator[k].committed
               /\ Val(creator[k].order).id = id
               /\ creator'[k].pc = "idle"
          /\ last'.kind = "create" /\ last'.status = 200 /\ last'.order = id
          /\ id \notin acked /\ id \in acked'
          /\ jobs'[id].pc = "timer" /\ jobs'[id].due = now + ConfirmDelay
     /\ last'.kind = "create" /\ last'.status = 200
          => last'.order \in DOMAIN jobs' \ DOMAIN jobs
     /\ \A id \in DOMAIN jobs :
          jobs'[id] # jobs[id]
            => /\ id \in acked /\ acked' = acked
               /\ last' = NoLast
               /\ jobs[id].pc = "timer" => now >= jobs[id].due]_vars

\* The job of an order created in this run has run to its end, after the
\* response for the order was sent.
C19_Witness ==
  /\ ~Seeded(env)
  /\ \E id \in DOMAIN jobs :
       jobs[id].pc = "done" /\ id \in acked /\ HasStatus(id, "CONFIRMED")

\* C20: every committed order has a Confirmation job, once the createOrder
\* call that committed it is over, and every job is for a committed order.
C20_CommittedOrderHasJob ==
  /\ \A r \in orders :
       \/ r.id \in DOMAIN jobs
       \/ \E k \in Creators :
            /\ creator[k].pc # "idle" /\ creator[k].order # None
            /\ Val(creator[k].order).id = r.id
  /\ \A id \in DOMAIN jobs : \E r \in orders : r.id = id

\* C21: when a POST answers the internal error, the store holds no order row
\* and no item row of that call, and the error handler never comes to its
\* ROLLBACK with the call's COMMIT done.
C21_InternalErrorLeavesNoRow ==
  /\ last.kind = "create" /\ last.status = 500
       => /\ last.order \notin OrderIds(orders)
          /\ ItemsOf(items, last.order) = {}
  /\ \A k \in Creators : creator[k].pc = "rollback" => ~creator[k].committed

\* The rows a call holds in its open transaction.
TxOrders(k) == IF creator[k].order = None \/ creator[k].committed
               THEN {} ELSE {Val(creator[k].order)}

\* C22: the orders of the store and of the open transactions have distinct
\* identifiers, and so have the item rows; the item rows of a transaction
\* reference its own order; a step of one call leaves the other call as it is,
\* takes no row out of the store, and adds only its own order with item rows
\* that reference it.
C22_ConcurrentCreationsIndependent ==
  [][/\ \A k1, k2 \in Creators :
          /\ k1 # k2 => \A r1 \in TxOrders(k1), r2 \in TxOrders(k2) : r1.id # r2.id
          /\ \A r1 \in TxOrders(k1), r2 \in orders : r1.id # r2.id
          /\ \A it \in creator[k1].txItems :
               /\ creator[k1].order # None
               /\ it.order_id = Val(creator[k1].order).id
               /\ \A it2 \in items : it2.id # it.id
               /\ k1 # k2 => \A it2 \in creator[k2].txItems : it2.id # it.id
     /\ \A r1, r2 \in orders : r1.id = r2.id => r1 = r2
     /\ \A it1, it2 \in items : it1.id = it2.id => it1 = it2
     /\ \A k \in Creators :
          creator'[k] # creator[k]
            => /\ \A k2 \in Creators \ {k} : creator'[k2] = creator[k2]
               /\ orders \subseteq orders' /\ items \subseteq items'
               /\ orders' # orders \/ items' # items
                    => /\ creator'[k].order # None
                       /\ orders' \ orders = {Val(creator'[k].order)}
                       /\ items' \ items # {}
                       /\ \A it \in items' \ items :
                            it.order_id = Val(creator'[k].order).id]_vars

\* Two calls overlapped and both succeeded: the call of order 1 answers 200
\* with order 2, inserted after order 1, already committed with its items.
C22_Witness ==
  /\ last.kind = "create" /\ last.status = 200 /\ last.order = 1
  /\ 2 \in OrderIds(orders)
  /\ ItemsOf(items, 1) # {} /\ ItemsOf(items, 2) # {}
  /\ \A it \in items : it.order_id \in {1, 2}

====
